---- MODULE Spec2Model ----
(***************************************************************************)
(* colx (src/main.rs): the sequential multi-file reader                    *)
(* (MultipleFileReader), the column-range parser (parse_column_range) and  *)
(* the argument splitter (separate_args).                                  *)
(*                                                                         *)
(* Strings are sequences of one-character strings.  A byte of a stream is  *)
(* the pair <<stream name, offset>>: the reader never looks at byte        *)
(* values, so every byte is told apart by where it comes from.             *)
(***************************************************************************)
EXTENDS Integers, Sequences, FiniteSets, TLC

VARIABLES
    phase,        \* "init" (no reader yet) | "ready" (reader built) | "failed" (new returned Err)
    descriptors,  \* the filenames handed to MultipleFileReader::new_with_opener
    filehandles,  \* MultipleFileReader.filehandles
    built,        \* the filehandles as they were when the reader was built
    stdinPos,     \* bytes of the process's standard input consumed so far
    call_count,   \* invocations of stdin_opener
    opens,        \* the File::open calls made, in order: [name, ok]
    lastOp,       \* "none" | "new" | "from_filehandles" | "read"
    result,       \* the value the last operation returned
    trace,        \* the underlying read() calls of the last read, in order: [id, ret]
    chunk,        \* the bytes the last read left in the caller's buffer, buf[..n]
    out,          \* every byte returned by read so far
    everRead,     \* ids of the sources whose read() was ever called
    anyErr,       \* some underlying read() has returned Err
    bufLen,       \* buf.len() of the last read
    token,        \* parse_column_range's argument
    parsed,       \* parse_column_range's return value
    args,         \* separate_args's argument
    separated,    \* separate_args's return value
    column_ranges, \* extract_columns's first argument
    columns,      \* extract_columns's second argument, the fields of one line
    extracted,    \* extract_columns's return value
    flags,        \* realmain's flags.columns_then_files
    outcome       \* what a run of realmain did

rvars == <<phase, descriptors, filehandles, built, stdinPos, call_count, opens,
           lastOp, result, trace, chunk, out, everRead, anyErr, bufLen>>
pvars == <<token, parsed>>
avars == <<args, separated>>
evars == <<column_ranges, columns, extracted>>
mvars == <<flags, outcome>>
vars == <<rvars, pvars, avars, evars, mvars>>

----------------------------------------------------------------------------
(* Bounds *)

\* longest filename list / filehandle list handed to a constructor
MaxFiles == 3
\* largest buffer a caller passes to read
MaxCap == 2
\* bytes available on standard input
StdinLen == 1

Min(a, b) == IF a <= b THEN a ELSE b
Max(a, b) == IF a >= b THEN a ELSE b

RECURSIVE Concat(_)
Concat(ss) == IF ss = <<>> THEN <<>> ELSE Head(ss) \o Concat(Tail(ss))

SeqsUpTo(S, n) == UNION {[1..k -> S] : k \in 0..n}

----------------------------------------------------------------------------
(* The file system the reader runs against: two readable files, one of    *)
(* them empty, and one name that does not exist.                           *)

FileNames == {"f0", "f1", "nx"}

FileExists(name) == name \in {"f0", "f1"}

FileLen(name) == IF name = "f1" THEN 2 ELSE 0

StreamLen(h) == IF h.kind = "stdin" THEN StdinLen
                ELSE IF h.kind = "file" THEN FileLen(h.name)
                ELSE 0

\* Box::new(stdin_opener()): every Stdin handle reads the one standard input.
StdinHandle(i) == [id |-> i, kind |-> "stdin", name |-> "-", pos |-> 0]

\* Box::new(File::open(filename)?): a handle with its own offset, at 0.
FileHandle(i, name) == [id |-> i, kind |-> "file", name |-> name, pos |-> 0]

\* Box::new(ReadAlwaysFails {})
FailsHandle(i) == [id |-> i, kind |-> "fails", name |-> "!", pos |-> 0]

----------------------------------------------------------------------------
(* MultipleFileReader::new_with_opener                                     *)

Ok(n) == [kind |-> "ok", n |-> n]
ReadErr(id) == [kind |-> "err", n |-> 0, from |-> id]
OpenErr(name) == [kind |-> "open_err", name |-> name]
Built == [kind |-> "reader"]
NoResult == [kind |-> "not_run"]

RECURSIVE OpenAll(_, _, _, _, _)

\* A File::open that fails but is passed over, the loop going on.
OpenFailedSkip(names, i, fhs, cc, log) ==
    OpenAll(names, i + 1, fhs, cc,
            Append(log, [name |-> names[i], ok |-> FALSE]))

\* File::open(filename)? on a file that cannot be opened: the error is
\* returned at once and the vector built so far is dropped.
OpenFailed(names, i, fhs, cc, log) ==
    [ok |-> FALSE, filehandles |-> <<>>, call_count |-> cc,
     opens |-> Append(log, [name |-> names[i], ok |-> FALSE]),
     err |-> names[i]]

\* The for loop over filenames, from the i-th name on: fhs is the vector
\* built so far, cc the stdin_opener calls and log the File::open calls made.
OpenAll(names, i, fhs, cc, log) ==
    IF i > Len(names)
    THEN [ok |-> TRUE, filehandles |-> fhs, call_count |-> cc, opens |-> log,
          err |-> ""]
    ELSE IF names[i] = "-"
    THEN OpenAll(names, i + 1, Append(fhs, StdinHandle(i)), cc + 1, log)
    ELSE IF FileExists(names[i])
    THEN OpenAll(names, i + 1, Append(fhs, FileHandle(i, names[i])), cc,
                 Append(log, [name |-> names[i], ok |-> TRUE]))
    ELSE OpenFailed(names, i, fhs, cc, log)

\* new_with_opener without the substitution of ["-"] for an empty list.
NewWithOpenerNoDefault(filenames) == OpenAll(filenames, 1, <<>>, 0, <<>>)

\* An empty filename list is replaced by ["-"].
NewWithOpener(filenames) ==
    IF filenames = <<>>
    THEN OpenAll(<<"-">>, 1, <<>>, 0, <<>>)
    ELSE OpenAll(filenames, 1, <<>>, 0, <<>>)

----------------------------------------------------------------------------
(* impl Read for MultipleFileReader                                        *)

\* Offset of the next unread byte of the stream behind a handle.
Offset(h, sp) == IF h.kind = "stdin" THEN sp ELSE h.pos

\* One read(buf) on an underlying source with a buffer of cap bytes.  The
\* source hands over at most want bytes (a short read); fault is an I/O
\* error of this call.  ReadAlwaysFails errs on every call.
SourceRead(h, sp, cap, want, fault) ==
    IF h.kind = "fails" \/ fault
    THEN [err |-> TRUE, n |-> 0]
    ELSE [err |-> FALSE,
          n |-> Min(Min(want, cap), StreamLen(h) - Offset(h, sp))]

\* The n bytes a successful underlying read puts at buf[..n], each with the
\* handle it was read through.
BytesAt(h, sp, n) ==
    [k \in 1..n |-> [src |-> h.id, byte |-> <<h.name, Offset(h, sp) + k>>]]

Advance(h, n) == IF h.kind = "stdin" THEN h ELSE [h EXCEPT !.pos = @ + n]

RECURSIVE ReadLoop(_, _, _, _, _, _, _)

\* An error of the head's read that drops the head and goes on to the next.
OnErrorSkip(fhs, sp, cap, want, faultAt, iter, tr) ==
    ReadLoop(Tail(fhs), sp, cap, want, faultAt, iter + 1,
             Append(tr, [id |-> Head(fhs).id, ret |-> -1]))

\* self.filehandles[0].read(buf)? returning Err: read returns the error;
\* nothing is removed.
OnError(fhs, sp, cap, want, faultAt, iter, tr) ==
    [res |-> ReadErr(Head(fhs).id), filehandles |-> fhs, stdinPos |-> sp,
     trace |-> Append(tr, [id |-> Head(fhs).id, ret |-> -1]), chunk |-> <<>>]

\* The head's n bytes kept, the rest of the buffer filled from what follows.
OnDataFill(fhs, sp, cap, want, faultAt, iter, tr, n) ==
    LET h == Head(fhs)
        sp1 == IF h.kind = "stdin" THEN sp + n ELSE sp
        tr1 == Append(tr, [id |-> h.id, ret |-> n])
        rest == IF n < cap
                THEN ReadLoop(Tail(fhs), sp1, cap - n, want, faultAt, iter + 1, tr1)
                ELSE [res |-> Ok(0), filehandles |-> Tail(fhs), stdinPos |-> sp1,
                      trace |-> tr1, chunk |-> <<>>]
    IN  [res |-> Ok(n + Len(rest.chunk)),
         filehandles |-> <<Advance(h, n)>> \o rest.filehandles,
         stdinPos |-> rest.stdinPos, trace |-> rest.trace,
         chunk |-> BytesAt(h, sp, n) \o rest.chunk]

\* length > 0: return Ok(length); the head stays the head.
OnData(fhs, sp, cap, want, faultAt, iter, tr, n) ==
    LET h == Head(fhs)
    IN  [res |-> Ok(n),
         filehandles |-> <<Advance(h, n)>> \o Tail(fhs),
         stdinPos |-> IF h.kind = "stdin" THEN sp + n ELSE sp,
         trace |-> Append(tr, [id |-> h.id, ret |-> n]),
         chunk |-> BytesAt(h, sp, n)]

\* swap_remove(0): the last filehandle takes the head's place.
SwapRemove(fhs) ==
    IF Len(fhs) <= 1 THEN <<>>
    ELSE <<fhs[Len(fhs)]>> \o SubSeq(fhs, 2, Len(fhs) - 1)

\* self.filehandles.remove(0)
Remove0(fhs) == Tail(fhs)

\* An exhausted list reported as an error.
OutOfFilesErr(fhs, sp, tr) ==
    [res |-> ReadErr(0), filehandles |-> fhs, stdinPos |-> sp, trace |-> tr,
     chunk |-> <<>>]

\* Run out of files to read: Ok(0).
OutOfFiles(fhs, sp, tr) ==
    [res |-> Ok(0), filehandles |-> fhs, stdinPos |-> sp, trace |-> tr,
     chunk |-> <<>>]

\* The while loop of read: iter counts the underlying reads of this call,
\* the one numbered faultAt fails with an I/O error (0: none does).
ReadLoop(fhs, sp, cap, want, faultAt, iter, tr) ==
    IF fhs = <<>>
    THEN OutOfFiles(fhs, sp, tr)
    ELSE LET r == SourceRead(Head(fhs), sp, cap, want, iter = faultAt)
         IN  IF r.err
             THEN OnError(fhs, sp, cap, want, faultAt, iter, tr)
             ELSE IF r.n > 0
             THEN OnData(fhs, sp, cap, want, faultAt, iter, tr, r.n)
             ELSE ReadLoop(Remove0(fhs), sp, cap, want, faultAt, iter + 1,
                           Append(tr, [id |-> Head(fhs).id, ret |-> 0]))

----------------------------------------------------------------------------
(* The reader's operations *)

Descriptors == {"-"} \cup FileNames

\* What a caller may box up for new_from_filehandles.
SourceOf(i, d) == IF d = "-" THEN StdinHandle(i)
                  ELSE IF d = "!" THEN FailsHandle(i)
                  ELSE FileHandle(i, d)

ExtractIdle == column_ranges = <<>> /\ columns = <<>> /\ extracted = NoResult
MainIdle == flags = <<>> /\ outcome = NoResult

PureIdle ==
    /\ token = <<>> /\ parsed = NoResult /\ args = <<>> /\ separated = NoResult
    /\ ExtractIdle /\ MainIdle

Init ==
    /\ phase = "init"
    /\ descriptors = <<>>
    /\ filehandles = <<>>
    /\ built = <<>>
    /\ stdinPos = 0
    /\ call_count = 0
    /\ opens = <<>>
    /\ lastOp = "none"
    /\ result = NoResult
    /\ trace = <<>>
    /\ chunk = <<>>
    /\ out = <<>>
    /\ everRead = {}
    /\ anyErr = FALSE
    /\ bufLen = 0
    /\ PureIdle

\* MultipleFileReader::new_with_opener(filenames, counting opener)
New(filenames) ==
    /\ phase = "init"
    /\ LET r == NewWithOpener(filenames)
       IN  /\ phase' = IF r.ok THEN "ready" ELSE "failed"
           /\ filehandles' = r.filehandles
           /\ built' = r.filehandles
           /\ call_count' = r.call_count
           /\ opens' = r.opens
           /\ result' = IF r.ok THEN Built ELSE OpenErr(r.err)
    /\ descriptors' = filenames
    /\ lastOp' = "new"
    /\ UNCHANGED <<stdinPos, trace, chunk, out, everRead, anyErr, bufLen, pvars,
                   avars, evars, mvars>>

\* MultipleFileReader::new_from_filehandles(filehandles)
NewFromFilehandles(kinds) ==
    /\ phase = "init"
    /\ LET fhs == [i \in 1..Len(kinds) |-> SourceOf(i, kinds[i])]
       IN  /\ filehandles' = fhs
           /\ built' = fhs
    /\ phase' = "ready"
    /\ result' = Built
    /\ lastOp' = "from_filehandles"
    /\ UNCHANGED <<descriptors, stdinPos, call_count, opens, trace, chunk, out,
                   everRead, anyErr, bufLen, pvars, avars, evars, mvars>>

\* multi_file_reader.read(&mut buf) with buf.len() = cap
Read(cap, want, faultAt) ==
    /\ phase = "ready"
    /\ LET r == ReadLoop(filehandles, stdinPos, cap, want, faultAt, 1, <<>>)
       IN  /\ filehandles' = r.filehandles
           /\ stdinPos' = r.stdinPos
           /\ result' = r.res
           /\ trace' = r.trace
           /\ chunk' = r.chunk
           /\ out' = out \o [k \in 1..Len(r.chunk) |-> r.chunk[k].byte]
           /\ everRead' = everRead \cup {r.trace[k].id : k \in 1..Len(r.trace)}
           /\ anyErr' = (anyErr \/ r.res.kind = "err")
    /\ lastOp' = "read"
    /\ bufLen' = cap
    /\ UNCHANGED <<phase, descriptors, built, call_count, opens, pvars, avars,
                   evars, mvars>>

Next ==
    \/ \E filenames \in SeqsUpTo(Descriptors, MaxFiles) : New(filenames)
    \/ \E kinds \in SeqsUpTo({"-", "f0", "f1", "!"}, MaxFiles) :
           NewFromFilehandles(kinds)
    \/ \E cap \in 0..MaxCap :
           \E want \in 1..Max(cap, 1), faultAt \in 0..Len(filehandles) :
               Read(cap, want, faultAt)

Spec == Init /\ [][Next]_vars

----------------------------------------------------------------------------
(* parse_column_range                                                      *)

\* Width of isize in the model: isize is I8-like, -2^(IsizeBits-1) ..
\* 2^(IsizeBits-1) - 1, so that short tokens overflow it.
IsizeBits == 8
\* Longest token
MaxTokLen == 5

ISIZE_MAX == 2^(IsizeBits - 1) - 1
ISIZE_MIN == -(2^(IsizeBits - 1))

\* ARABIC-INDIC DIGIT THREE, a decimal digit that is not an ASCII digit.
ArabicIndic3 == "U+0663"

AsciiDigits == {"0", "1", "2", "3", "4", "5", "6", "7", "8", "9"}

DigitValue(c) == CASE c = "0" -> 0 [] c = "1" -> 1 [] c = "2" -> 2
                   [] c = "3" -> 3 [] c = "4" -> 4 [] c = "5" -> 5
                   [] c = "6" -> 6 [] c = "7" -> 7 [] c = "8" -> 8
                   [] c = "9" -> 9

\* The characters tokens are made of.
TokenChars == {"-", "+", ":", "1", "9", "a", ".", ArabicIndic3}

Tokens == SeqsUpTo(TokenChars, MaxTokLen)

ParseFail == [ok |-> FALSE, val |-> 0]

\* The digit loop of str::parse::<isize>: checked_mul(10), then checked_add
\* of the digit for a positive number and checked_sub for a negative one.
RECURSIVE ParseDigits(_, _, _)
ParseDigits(ds, acc, neg) ==
    IF ds = <<>> THEN [ok |-> TRUE, val |-> acc]
    ELSE IF Head(ds) \notin AsciiDigits THEN ParseFail
    ELSE LET v == IF neg THEN acc * 10 - DigitValue(Head(ds))
                  ELSE acc * 10 + DigitValue(Head(ds))
         IN  IF v > ISIZE_MAX \/ v < ISIZE_MIN THEN ParseFail
             ELSE ParseDigits(Tail(ds), v, neg)

\* maybe_column.parse::<isize>(): an optional "+" or "-", then ASCII digits;
\* Err for the empty string, a lone sign, any other character, or a value
\* that does not fit isize.
ParseIsize(str) ==
    IF str = <<>> THEN ParseFail
    ELSE IF Len(str) = 1 /\ str[1] \in {"+", "-"} THEN ParseFail
    ELSE IF str[1] = "-" THEN ParseDigits(Tail(str), 0, TRUE)
    ELSE IF str[1] = "+" THEN ParseDigits(Tail(str), 0, FALSE)
    ELSE ParseDigits(str, 0, FALSE)

\* \d of the regex crate: any Unicode decimal digit.
RegexDigit(c) == c \in AsciiDigits \cup {ArabicIndic3}

\* -?\d+
MatchesGroup(str) ==
    LET digits == IF str # <<>> /\ str[1] = "-" THEN Tail(str) ELSE str
    IN  digits # <<>> /\ \A k \in 1..Len(digits) : RegexDigit(digits[k])

\* regex.captures(maybe_column) for ^(-?\d+):(-?\d+)$: the whole token is a
\* group, a colon and a group.  No group holds a colon, so at most one colon
\* splits the token this way.
Captures(tok) ==
    LET splits == {i \in 1..Len(tok) :
                      /\ tok[i] = ":"
                      /\ MatchesGroup(SubSeq(tok, 1, i - 1))
                      /\ MatchesGroup(SubSeq(tok, i + 1, Len(tok)))}
    IN  IF splits = {} THEN [matched |-> FALSE, g1 |-> <<>>, g2 |-> <<>>]
        ELSE LET i == CHOOSE i \in splits : TRUE
             IN  [matched |-> TRUE, g1 |-> SubSeq(tok, 1, i - 1),
                  g2 |-> SubSeq(tok, i + 1, Len(tok))]

Some(start, end) == [kind |-> "Some", start |-> start, end |-> end]
None == [kind |-> "None"]
\* unwrap() of an Err: the thread panics.
Panic == [kind |-> "panic"]

\* parse_column_range with the two captures taken in the wrong order.
ParseColumnRangeSwapped(maybe_column) ==
    LET single == ParseIsize(maybe_column)
        matches == Captures(maybe_column)
        a == ParseIsize(matches.g1)
        b == ParseIsize(matches.g2)
    IN  IF single.ok THEN Some(single.val, single.val)
        ELSE IF matches.matched
        THEN IF a.ok /\ b.ok THEN Some(b.val, a.val) ELSE Panic
        ELSE None

\* parse_column_range
ParseColumnRange(maybe_column) ==
    LET single == ParseIsize(maybe_column)
        matches == Captures(maybe_column)
        a == ParseIsize(matches.g1)
        b == ParseIsize(matches.g2)
    IN  IF single.ok THEN Some(single.val, single.val)
        ELSE IF matches.matched
        THEN IF a.ok /\ b.ok THEN Some(a.val, b.val) ELSE Panic
        ELSE None

ReaderIdle ==
    /\ phase = "init" /\ descriptors = <<>> /\ filehandles = <<>>
    /\ built = <<>> /\ stdinPos = 0 /\ call_count = 0 /\ opens = <<>>
    /\ lastOp = "none" /\ result = NoResult /\ trace = <<>> /\ chunk = <<>>
    /\ out = <<>> /\ everRead = {} /\ anyErr = FALSE /\ bufLen = 0

InitParse ==
    /\ ReaderIdle
    /\ token \in Tokens
    /\ parsed = NoResult
    /\ args = <<>> /\ separated = NoResult
    /\ ExtractIdle /\ MainIdle

\* parse_column_range(token)
ParseToken ==
    /\ parsed = NoResult
    /\ parsed' = ParseColumnRange(token)
    /\ UNCHANGED <<rvars, token, avars, evars, mvars>>

NextParse == ParseToken

SpecParse == InitParse /\ [][NextParse]_vars

----------------------------------------------------------------------------
(* separate_args                                                           *)

\* Longest argument list
MaxArgs == 3

\* The tokens argument lists are made of: columns, ranges, filenames, a
\* range whose start does not fit isize, and "-".
ArgTokens == { <<"1">>, <<"-", "1">>, <<"1", ":", "9">>, <<"9", ":", "-", "1">>,
               <<"a">>, <<"-">>, <<"1", ":">>, <<"9", "9", "9", ":", "1">> }

\* args.iter().map_while(|x| parse_column_range(x)).collect(), from the i-th
\* argument on: stops at the first None without looking at what follows; a
\* panic of parse_column_range unwinds through it.
RECURSIVE MapWhile(_, _)
MapWhile(as, i) ==
    IF i > Len(as) THEN [panic |-> FALSE, columns |-> <<>>]
    ELSE LET r == ParseColumnRange(as[i])
         IN  IF r = Panic THEN [panic |-> TRUE, columns |-> <<>>]
             ELSE IF r = None THEN [panic |-> FALSE, columns |-> <<>>]
             ELSE LET rest == MapWhile(as, i + 1)
                  IN  [panic |-> rest.panic,
                       columns |-> IF rest.panic THEN <<>>
                                   ELSE <<[start |-> r.start, end |-> r.end]>>
                                        \o rest.columns]

\* separate_args
SeparateArgs(as) ==
    LET c == MapWhile(as, 1)
    IN  IF c.panic THEN Panic
        ELSE [kind |-> "ok", columns |-> c.columns,
              filenames |-> SubSeq(as, Len(c.columns) + 1, Len(as))]

InitArgs ==
    /\ ReaderIdle
    /\ token = <<>> /\ parsed = NoResult
    /\ args \in SeqsUpTo(ArgTokens, MaxArgs)
    /\ separated = NoResult
    /\ ExtractIdle /\ MainIdle

\* separate_args(args)
Separate ==
    /\ separated = NoResult
    /\ separated' = SeparateArgs(args)
    /\ UNCHANGED <<rvars, pvars, args, evars, mvars>>

NextArgs == Separate

SpecArgs == InitArgs /\ [][NextArgs]_vars

----------------------------------------------------------------------------
(* extract_columns                                                         *)

\* Largest absolute value of a range's start and end
MaxIdx == 2
\* Longest list of ranges
MaxRanges == 2
\* Most fields of a line
MaxFields == 3

ColumnRanges == [start : -MaxIdx..MaxIdx, end : -MaxIdx..MaxIdx]

\* The fields of a line, columns[0] first; each is told apart by its place.
FieldsOfLen(len) == [k \in 1..len |-> <<"field", k - 1>>]

\* Every range enumerated from its smaller to its larger bound.
IndicesAscending(column_range) ==
    LET lo == Min(column_range.start, column_range.end)
        hi == Max(column_range.start, column_range.end)
    IN  [k \in 1..(hi - lo + 1) |-> lo + (k - 1)]

\* let indices: (start..=end).collect() if start < end, otherwise
\* (end..=start).rev().collect()
Indices(column_range) ==
    IF column_range.start < column_range.end
    THEN [k \in 1..(column_range.end - column_range.start + 1) |->
              column_range.start + (k - 1)]
    ELSE [k \in 1..(column_range.start - column_range.end + 1) |->
              column_range.start - (k - 1)]

\* for i in indices { ... }: j is i, or i + columns.len() for a negative i;
\* a j below 0 or at or beyond columns.len() is passed over, columns[j] is
\* pushed otherwise (columns[j] of the code is cols[j + 1] here).
RECURSIVE PushIndices(_, _, _)
PushIndices(indices, cols, results) ==
    IF indices = <<>> THEN results
    ELSE LET i == Head(indices)
             j == IF i < 0 THEN i + Len(cols) ELSE i
         IN  IF j < 0 THEN PushIndices(Tail(indices), cols, results)
             ELSE IF j >= Len(cols) THEN PushIndices(Tail(indices), cols, results)
             ELSE PushIndices(Tail(indices), cols, Append(results, cols[j + 1]))

\* for column_range in column_ranges.iter() { ... }
RECURSIVE ExtractFrom(_, _, _)
ExtractFrom(ranges, cols, results) ==
    IF ranges = <<>> THEN results
    ELSE ExtractFrom(Tail(ranges), cols,
                     PushIndices(Indices(Head(ranges)), cols, results))

\* extract_columns
ExtractColumns(ranges, cols) == ExtractFrom(ranges, cols, <<>>)

InitExtract ==
    /\ ReaderIdle
    /\ token = <<>> /\ parsed = NoResult /\ args = <<>> /\ separated = NoResult
    /\ MainIdle
    /\ column_ranges \in SeqsUpTo(ColumnRanges, MaxRanges)
    /\ columns \in {FieldsOfLen(len) : len \in 0..MaxFields}
    /\ extracted = NoResult

\* extract_columns(&column_ranges, &columns)
Extract ==
    /\ extracted = NoResult
    /\ extracted' = [kind |-> "ok", results |-> ExtractColumns(column_ranges, columns)]
    /\ UNCHANGED <<rvars, pvars, avars, column_ranges, columns, mvars>>

NextExtract == Extract

SpecExtract == InitExtract /\ [][NextExtract]_vars

----------------------------------------------------------------------------
(* realmain, with the default flags: delimiter \s+ and separator " "       *)

\* Capacity of the buffer of BufReader::new
BufCap == 8192

NL == "\n"

\* What the files and the standard input hold.
FileData(name) == IF name = "f1" THEN <<"a", NL>> ELSE <<>>
StdinData == [k \in 1..StdinLen |-> IF k % 2 = 1 THEN "b" ELSE NL]

\* The value of the byte <<stream name, offset>>.
ByteValue(byte) == IF byte[1] = "-" THEN StdinData[byte[2]]
                   ELSE FileData(byte[1])[byte[2]]

\* The tokens of flags.columns_then_files: columns, ranges, names of files
\* that exist, "-", a name that does not exist, and a range whose start does
\* not fit isize.
MainTokens == { <<"1">>, <<"0", ":", "1">>, <<"-", "1">>, <<"f", "1">>,
                <<"f", "0">>, <<"-">>, <<"n", "x">>,
                <<"9", "9", "9", ":", "1">> }

\* A String from its characters.
RECURSIVE StrOf(_)
StrOf(tok) == IF tok = <<>> THEN "" ELSE Head(tok) \o StrOf(Tail(tok))

\* BufReader's reads of the MultipleFileReader, each with BufCap bytes of
\* room, until one returns Ok(0) or an error: nread counts them and the one
\* numbered faultAt meets an I/O error on its first underlying read.
RECURSIVE Drain(_, _, _, _, _)

\* What BufReader does with the result r of one read: an error ends the
\* lines with it, Ok(0) ends them, bytes are kept and the next read follows.
Filled(r, nread, faultAt, acc) ==
    IF r.res.kind = "err" THEN [err |-> TRUE, bytes |-> acc]
    ELSE IF r.res.n = 0 THEN [err |-> FALSE, bytes |-> acc]
    ELSE Drain(r.filehandles, r.stdinPos, nread + 1, faultAt,
               acc \o [k \in 1..Len(r.chunk) |-> ByteValue(r.chunk[k].byte)])

Drain(fhs, sp, nread, faultAt, acc) ==
    Filled(ReadLoop(fhs, sp, BufCap, BufCap,
                    IF nread = faultAt THEN 1 ELSE 0, 1, <<>>),
           nread, faultAt, acc)

\* BufRead::lines: the text up to each "\n", without it; what follows the
\* last "\n" is a line too unless it is empty (atEnd), and is not returned
\* when the read after it failed.
RECURSIVE LinesOf(_, _, _)
LinesOf(text, cur, atEnd) ==
    IF text = <<>>
    THEN IF cur # <<>> /\ atEnd THEN <<cur>> ELSE <<>>
    ELSE IF Head(text) = NL THEN <<cur>> \o LinesOf(Tail(text), <<>>, atEnd)
    ELSE LinesOf(Tail(text), Append(cur, Head(text)), atEnd)

\* \s
IsSpace(c) == c \in {" ", "\t", NL}

\* delimiter.split(&line).filter(|col| !col.is_empty()).collect()
RECURSIVE SplitFields(_, _)
SplitFields(line, cur) ==
    IF line = <<>>
    THEN IF cur # <<>> THEN <<cur>> ELSE <<>>
    ELSE IF IsSpace(Head(line))
    THEN (IF cur # <<>> THEN <<cur>> ELSE <<>>) \o SplitFields(Tail(line), <<>>)
    ELSE SplitFields(Tail(line), Append(cur, Head(line)))

\* wanted_columns.join(&separator)
RECURSIVE Join(_)
Join(cols) ==
    IF cols = <<>> THEN <<>>
    ELSE IF Len(cols) = 1 THEN cols[1]
    ELSE cols[1] \o <<" ">> \o Join(Tail(cols))

\* The body of the for loop over the lines: what output_handler is given.
OutputLine(ranges, line) ==
    Join(ExtractColumns(ranges, <<line>> \o SplitFields(line, <<>>)))

\* The for loop over the lines of the input: output_handler is given one
\* string per line; line.unwrap() panics on the error of a read, after the
\* lines before it.
ForLines(ranges, input, drained) ==
    LET lines == LinesOf(drained.bytes, <<>>, ~drained.err)
    IN  IF drained.err
        THEN [kind |-> "panic", at |-> "read",
              outputs |-> [k \in 1..Len(lines) |-> OutputLine(ranges, lines[k])],
              opens |-> input.opens, call_count |-> input.call_count,
              constructed |-> TRUE]
        ELSE [kind |-> "exit", status |-> 0,
              outputs |-> [k \in 1..Len(lines) |-> OutputLine(ranges, lines[k])],
              opens |-> input.opens, call_count |-> input.call_count,
              constructed |-> TRUE]

\* MultipleFileReader::new(filenames).unwrap()
Unwrapped(ranges, input, faultAt) ==
    IF ~input.ok
    THEN [kind |-> "panic", at |-> "new", outputs |-> <<>>,
          opens |-> input.opens, call_count |-> input.call_count,
          constructed |-> FALSE]
    ELSE ForLines(ranges, input, Drain(input.filehandles, 0, 1, faultAt, <<>>))

\* What follows separate_args: its panic is realmain's; without a range the
\* status is 1.
Separated(sep, faultAt) ==
    IF sep = Panic
    THEN [kind |-> "panic", at |-> "separate_args", outputs |-> <<>>,
          opens |-> <<>>, call_count |-> 0, constructed |-> FALSE]
    ELSE IF sep.columns = <<>>
    THEN [kind |-> "exit", status |-> 1, outputs |-> <<>>,
          opens |-> <<>>, call_count |-> 0, constructed |-> FALSE]
    ELSE Unwrapped(sep.columns,
                   NewWithOpener([k \in 1..Len(sep.filenames) |->
                                     StrOf(sep.filenames[k])]),
                   faultAt)

\* realmain: whether it returns ("exit", with the status 0 or 1) or panics,
\* the strings given to output_handler in order, the File::open calls and
\* opener calls made and whether the reader was constructed.
Realmain(columns_then_files, faultAt) ==
    Separated(SeparateArgs(columns_then_files), faultAt)

InitMain ==
    /\ ReaderIdle
    /\ token = <<>> /\ parsed = NoResult /\ args = <<>> /\ separated = NoResult
    /\ ExtractIdle
    /\ flags \in SeqsUpTo(MainTokens, MaxArgs)
    /\ outcome = NoResult

\* realmain(flags, output_handler)
RunMain(faultAt) ==
    /\ outcome = NoResult
    /\ outcome' = Realmain(flags, faultAt)
    /\ UNCHANGED <<rvars, pvars, avars, evars, flags>>

NextMain == \E faultAt \in 0..MaxArgs : RunMain(faultAt)

SpecMain == InitMain /\ [][NextMain]_vars

----------------------------------------------------------------------------
(* Properties of MultipleFileReader *)

Ids(fhs) == {fhs[k].id : k \in 1..Len(fhs)}

\* fhs is what is left of whole after its first Len(whole) - Len(fhs)
\* filehandles were removed.
IsTailOf(fhs, whole) ==
    /\ Len(fhs) <= Len(whole)
    /\ \A k \in 1..Len(fhs) : fhs[k].id = whole[Len(whole) - Len(fhs) + k].id

\* The step is a call of read.
ReadCall == phase = "ready" /\ lastOp' = "read"

\* C1, first part: a read whose underlying read on the head returns Err
\* returns that error; the failing head stays the head with everything
\* behind it, no byte is consumed or returned, no source behind the failing
\* one is read, and a call whose very first underlying read fails leaves the
\* list as it was.
C1_ErrStep ==
    (ReadCall /\ result'.kind = "err") =>
        /\ trace' # <<>>
        /\ trace'[Len(trace')].ret = -1
        /\ result'.from = trace'[Len(trace')].id
        /\ filehandles' # <<>>
        /\ Head(filehandles').id = result'.from
        /\ filehandles' = SubSeq(filehandles, Len(trace'), Len(filehandles))
        /\ (Len(trace') = 1 => filehandles' = filehandles)
        /\ \A k \in 2..Len(filehandles') : filehandles'[k].id \notin everRead'
        /\ stdinPos' = stdinPos
        /\ out' = out
        /\ chunk' = <<>>

\* C1, second part: with a source that always fails at the head and a good
\* source behind it, every read returns an error, the list stays as built
\* and the good source is never read.
C1_AlwaysFailing ==
    (phase = "ready" /\ built # <<>> /\ built[1].kind = "fails") =>
        /\ filehandles = built
        /\ everRead \subseteq {built[1].id}
        /\ out = <<>>
        /\ lastOp = "read" => (result.kind = "err" /\ result.from = built[1].id)

C1_ReadErrorKeepsSource == []C1_AlwaysFailing /\ [][C1_ErrStep]_vars

\* A read with a two-byte buffer has failed on an always-failing head that
\* has a good source with data behind it.
C1_Witness ==
    /\ lastOp = "read"
    /\ result.kind = "err"
    /\ Len(filehandles) = 2
    /\ filehandles[1].kind = "fails"
    /\ filehandles[2].kind = "file"
    /\ StreamLen(filehandles[2]) > 0
    /\ bufLen = 2

\* The bytes of a filehandle's stream that have not been read yet.
Unread(h, sp) == SubSeq([k \in 1..StreamLen(h) |-> <<h.name, k>>],
                        Offset(h, sp) + 1, StreamLen(h))

UnreadAll(fhs, sp) == Concat([k \in 1..Len(fhs) |-> Unread(fhs[k], sp)])

\* The sources are streams of their own (at most one of them is the
\* standard input), none of them is ReadAlwaysFails and no read has failed.
GoodSources ==
    /\ phase = "ready"
    /\ ~anyErr
    /\ \A k \in 1..Len(built) : built[k].kind # "fails"
    /\ Cardinality({k \in 1..Len(built) : built[k].kind = "stdin"}) <= 1

\* C2: over good sources, after any sequence of reads, the bytes returned so
\* far followed by the unread bytes of the sources still in the list are the
\* concatenation of the sources' contents in list order; so when read
\* reports end of stream everything has been returned.
C2_Concatenation ==
    GoodSources =>
        /\ out \o UnreadAll(filehandles, stdinPos) = UnreadAll(built, 0)
        /\ (lastOp = "read" /\ result = Ok(0)) => out = UnreadAll(built, 0)

\* C3: the chunk of a read that returns n > 0 holds n bytes, all read
\* through one filehandle, the head of the list, by the last underlying read
\* of the call, and they are consecutive bytes of that one stream.
C3_OneSourcePerRead ==
    (lastOp = "read" /\ result.kind = "ok" /\ result.n > 0) =>
        /\ Len(chunk) = result.n
        /\ result.n <= bufLen
        /\ filehandles # <<>>
        /\ trace # <<>>
        /\ trace[Len(trace)] = [id |-> Head(filehandles).id, ret |-> result.n]
        /\ \A k \in 1..(Len(trace) - 1) : trace[k].ret = 0
        /\ \A k \in 1..Len(chunk) :
               /\ chunk[k].src = Head(filehandles).id
               /\ chunk[k].byte[1] = Head(filehandles).name
               /\ chunk[k].byte[2] = chunk[1].byte[2] + (k - 1)

\* A read with room for two bytes returned the last byte of f1 alone although
\* a source with data follows it.
C3_Witness ==
    /\ lastOp = "read"
    /\ result = Ok(1)
    /\ bufLen = 2
    /\ Len(filehandles) >= 2
    /\ filehandles[1].kind = "file"
    /\ filehandles[1].pos = StreamLen(filehandles[1])
    /\ Unread(filehandles[2], stdinPos) # <<>>

\* C4, the state: the list is always what is left of the list as built after
\* removing filehandles from the front, and of the filehandles still in the
\* list only the head may ever have been read; so a source has been read only
\* if every source before it is gone from the list.
C4_Order ==
    /\ IsTailOf(filehandles, built)
    /\ \A k \in 2..Len(filehandles) : filehandles[k].id \notin everRead
    /\ \A i, j \in 1..Len(built) :
           (i < j /\ built[j].id \in everRead) =>
               (built[i].id \in everRead /\ built[i].id \notin Ids(filehandles))

\* C4, the step: a read calls the underlying reads in list order starting
\* at the head, each one but the last has returned 0 and is removed by the
\* call, nothing is removed but those, and no filehandle outside the list
\* (a removed one) is read or comes back.
C4_Step ==
    ReadCall =>
        /\ Len(trace') <= Len(filehandles)
        /\ \A k \in 1..Len(trace') : trace'[k].id = filehandles[k].id
        /\ \A k \in 1..(Len(trace') - 1) :
               trace'[k].ret = 0 /\ trace'[k].id \notin Ids(filehandles')
        /\ Ids(filehandles') \subseteq Ids(filehandles)
        /\ Len(filehandles) - Len(filehandles') =
               Cardinality({k \in 1..Len(trace') : trace'[k].ret = 0})

C4_InOrderDiscard == []C4_Order /\ [][C4_Step]_vars

\* The third of three sources is being read; the first two were read, have
\* reported 0 and are gone.
C4_Witness ==
    /\ lastOp = "read"
    /\ Len(built) = 3
    /\ Len(filehandles) = 1
    /\ everRead = {1, 2, 3}
    /\ result.kind = "ok" /\ result.n > 0
    /\ Len(out) > result.n

\* C5, the state: a read that leaves the list empty has returned Ok(0).
C5_Empty == (lastOp = "read" /\ filehandles = <<>>) => result = Ok(0)

\* C5, the step: a read on an empty list returns Ok(0), reads nothing and
\* leaves the list empty; any read makes at most one underlying read per
\* filehandle of the list and so discards no more than the list held.
C5_Step ==
    ReadCall =>
        /\ filehandles = <<>> =>
               (result' = Ok(0) /\ filehandles' = <<>> /\ trace' = <<>> /\ out' = out)
        /\ result'.kind \in {"ok", "err"}
        /\ Len(trace') <= Len(filehandles)
        /\ Len(filehandles') <= Len(filehandles)

C5_EndOfStream == []C5_Empty /\ [][C5_Step]_vars

\* A read discarded three sources in one call and reported end of stream.
C5_Witness ==
    /\ lastOp = "read"
    /\ result = Ok(0)
    /\ filehandles = <<>>
    /\ Len(built) = 3
    /\ Len(trace) = 3
    /\ bufLen > 0

\* The descriptors new_with_opener works on.
Effective(filenames) == IF filenames = <<>> THEN <<"-">> ELSE filenames

\* Indices of the descriptors that name a file that cannot be opened.
Failing(names) == {i \in 1..Len(names) : names[i] # "-" /\ ~FileExists(names[i])}

FirstFailing(names) == CHOOSE i \in Failing(names) : \A j \in Failing(names) : i <= j

\* The File::open calls the descriptors names[1..n] ask for, in order.
RECURSIVE OpensOf(_, _)
OpensOf(names, n) ==
    IF n = 0 THEN <<>>
    ELSE IF names[n] = "-" THEN OpensOf(names, n - 1)
    ELSE Append(OpensOf(names, n - 1),
                [name |-> names[n], ok |-> FileExists(names[n])])

Dashes(names, n) == Cardinality({i \in 1..n : names[i] = "-"})

\* C6: when some named file cannot be opened, new returns the error of the
\* first such file and no reader: no filehandle is kept, the files opened are
\* those named up to the failing one and no later one, the opener was called
\* for the "-" before the failing one only, and nothing is ever read.
C6_OpenAllOrNothing ==
    (lastOp = "new" /\ Failing(descriptors) # {}) =>
        LET f == FirstFailing(descriptors)
        IN  /\ phase = "failed"
            /\ result = OpenErr(descriptors[f])
            /\ filehandles = <<>>
            /\ opens = OpensOf(descriptors, f)
            /\ call_count = Dashes(descriptors, f - 1)
            /\ everRead = {} /\ out = <<>>

\* The second of three names does not exist, the third is "-": new has
\* failed, one file was opened and dropped, the opener was never called.
C6_Witness ==
    /\ lastOp = "new"
    /\ phase = "failed"
    /\ descriptors = <<"f1", "nx", "-">>
    /\ call_count = 0

\* C7, the state after a successful new: one filehandle per effective
\* descriptor, in order, each at offset 0, a Stdin for each "-" and a File for
\* each name; the opener was called once per "-", every named file was opened
\* once, and nothing has been read.  Bytes are only ever read from a reader
\* that has been built.
C7_Built ==
    /\ (lastOp = "new" /\ phase = "ready") =>
           LET eff == Effective(descriptors)
           IN  /\ Len(filehandles) = Len(eff)
               /\ \A i \in 1..Len(eff) :
                      /\ filehandles[i].id = i
                      /\ filehandles[i].pos = 0
                      /\ filehandles[i].kind = IF eff[i] = "-" THEN "stdin" ELSE "file"
                      /\ filehandles[i].name = eff[i]
               /\ call_count = Dashes(eff, Len(eff))
               /\ opens = OpensOf(eff, Len(eff))
               /\ \A k \in 1..Len(opens) : opens[k].ok
               /\ built = filehandles
               /\ everRead = {} /\ out = <<>> /\ stdinPos = 0
    /\ (phase # "ready") => (everRead = {} /\ out = <<>> /\ stdinPos = 0)

\* C7, the step: once the reader is built nothing more is opened.
C7_Step == (phase = "ready") => UNCHANGED <<opens, call_count, built, descriptors>>

C7_EagerOpen == []C7_Built /\ [][C7_Step]_vars

\* new(["-", "f1", "-"]) has called the opener twice.
C7_Witness ==
    /\ lastOp = "new"
    /\ phase = "ready"
    /\ descriptors = <<"-", "f1", "-">>
    /\ call_count = 2
    /\ Len(filehandles) = 3

\* new([]) has called the opener once.
C7_WitnessEmpty ==
    /\ lastOp = "new"
    /\ phase = "ready"
    /\ descriptors = <<>>
    /\ call_count = 1

\* C13: a read, whatever the length of the buffer it is given, removes a
\* source from the list only if that source has no unread byte left, so no
\* unread byte is dropped.
C13_Step ==
    ReadCall =>
        \A k \in 1..Len(filehandles) :
            (filehandles[k].id \notin Ids(filehandles')) =>
                Unread(filehandles[k], stdinPos) = <<>>

C13_DiscardOnlyAtEnd == [][C13_Step]_vars

----------------------------------------------------------------------------
(* Properties of parse_column_range *)

\* str is written -?d+ with ASCII digits: a signed integer as the user
\* types it.
IsIntToken(str) ==
    LET digits == IF str # <<>> /\ str[1] = "-" THEN Tail(str) ELSE str
    IN  digits # <<>> /\ \A k \in 1..Len(digits) : digits[k] \in AsciiDigits

\* The number a digit string denotes.
RECURSIVE Decimal(_)
Decimal(digits) ==
    IF digits = <<>> THEN 0
    ELSE 10 * Decimal(SubSeq(digits, 1, Len(digits) - 1))
             + DigitValue(digits[Len(digits)])

\* The integer an integer token denotes.
IntOf(str) == IF str[1] = "-" THEN -Decimal(Tail(str)) ELSE Decimal(str)

\* str denotes an integer that an isize holds.
IsIsizeToken(str) ==
    IsIntToken(str) /\ IntOf(str) >= ISIZE_MIN /\ IntOf(str) <= ISIZE_MAX

\* tok is a:b with a and b signed integers an isize holds, split at i.
IsPairAt(tok, i) ==
    /\ i \in 1..Len(tok)
    /\ tok[i] = ":"
    /\ IsIsizeToken(SubSeq(tok, 1, i - 1))
    /\ IsIsizeToken(SubSeq(tok, i + 1, Len(tok)))

\* The malformed tokens: "a:", ":b", "a:b-", a token with a part that is
\* not numeric (a letter, "1.2").
Malformed(tok) ==
    \/ tok # <<>> /\ tok[Len(tok)] = ":"
    \/ tok # <<>> /\ tok[1] = ":"
    \/ /\ tok # <<>> /\ tok[Len(tok)] = "-"
       /\ \E i \in 1..(Len(tok) - 1) : IsPairAt(SubSeq(tok, 1, Len(tok) - 1), i)
    \/ \E k \in 1..Len(tok) : tok[k] \in {"a", "."}

\* C8: a token that is one signed integer n gives ColumnRange{n, n}; a token
\* a:b of two signed integers gives ColumnRange{a, b}, whatever their signs
\* and order; a malformed token gives None.
C8_ParsesRanges ==
    (parsed # NoResult) =>
        /\ IsIsizeToken(token) => parsed = Some(IntOf(token), IntOf(token))
        /\ \A i \in 1..Len(token) :
               IsPairAt(token, i) =>
                   parsed = Some(IntOf(SubSeq(token, 1, i - 1)),
                                 IntOf(SubSeq(token, i + 1, Len(token))))
        /\ Malformed(token) => parsed = None

\* "9:-11" has been parsed to the descending range 9 .. -11.
C8_Witness ==
    /\ token = <<"9", ":", "-", "1", "1">>
    /\ parsed = Some(9, -11)

\* "-19" has been parsed to the single column -19.
C8_WitnessSingle == token = <<"-", "1", "9">> /\ parsed = Some(-19, -19)

\* "1:9-" has been rejected.
C8_WitnessMalformed == token = <<"1", ":", "9", "-">> /\ parsed = None

\* C9: parse_column_range returns a ColumnRange or None for every token and
\* never aborts; a token a:b that matches the pattern gives None when a or b
\* does not fit isize, as a single integer that does not fit does.
C9_Total ==
    (parsed # NoResult) =>
        /\ parsed.kind \in {"Some", "None"}
        /\ (IsIntToken(token) /\ ~IsIsizeToken(token)) => parsed = None
        /\ \A i \in 1..Len(token) :
               ( /\ token[i] = ":"
                 /\ IsIntToken(SubSeq(token, 1, i - 1))
                 /\ IsIntToken(SubSeq(token, i + 1, Len(token)))
                 /\ ~IsPairAt(token, i) ) => parsed = None

----------------------------------------------------------------------------
(* Properties of separate_args *)

\* tok parses as a range: it is an isize integer or a pair of them.
IsRangeToken(tok) == IsIsizeToken(tok) \/ \E i \in 1..Len(tok) : IsPairAt(tok, i)

\* The range a range token denotes.
RangeOf(tok) ==
    IF IsIsizeToken(tok) THEN [start |-> IntOf(tok), end |-> IntOf(tok)]
    ELSE LET i == CHOOSE i \in 1..Len(tok) : IsPairAt(tok, i)
         IN  [start |-> IntOf(SubSeq(tok, 1, i - 1)),
              end |-> IntOf(SubSeq(tok, i + 1, Len(tok)))]

\* Length of the longest leading run of range tokens.
LeadingRun(as) ==
    CHOOSE n \in 0..Len(as) :
        /\ \A k \in 1..n : IsRangeToken(as[k])
        /\ n < Len(as) => ~IsRangeToken(as[n + 1])

\* C10: for every token list separate_args returns the ranges of the longest
\* leading run of range tokens, in order, and the remaining tokens, unchanged
\* and in order, as filenames; the two together are as many as the tokens.
C10_SeparateArgs ==
    (separated # NoResult) =>
        LET n == LeadingRun(args)
        IN  /\ separated.kind = "ok"
            /\ separated.columns = [k \in 1..n |-> RangeOf(args[k])]
            /\ separated.filenames = SubSeq(args, n + 1, Len(args))
            /\ Len(separated.columns) + Len(separated.filenames) = Len(args)

\* What separate_args returns whenever it returns: the statement above for
\* the token lists on which no call of parse_column_range panics.
SeparateArgsUnlessPanic ==
    (separated # NoResult /\ separated # Panic) =>
        LET n == LeadingRun(args)
        IN  /\ separated.columns = [k \in 1..n |-> RangeOf(args[k])]
            /\ separated.filenames = SubSeq(args, n + 1, Len(args))
            /\ Len(separated.columns) + Len(separated.filenames) = Len(args)

----------------------------------------------------------------------------
(* Properties of extract_columns *)

RECURSIVE Reverse(_)
Reverse(seq) == IF seq = <<>> THEN <<>> ELSE Append(Reverse(Tail(seq)), Head(seq))

\* The k-th integer from start to end: counting up when start <= end,
\* counting down when start > end.
Enumerated(r, k) == IF r.start <= r.end THEN r.start + (k - 1) ELSE r.start - (k - 1)

\* How many integers lie from start to end inclusive.
Span(r) == IF r.start <= r.end THEN r.end - r.start + 1 ELSE r.start - r.end + 1

\* An index counted from the end when negative.
Resolved(i, len) == IF i < 0 THEN i + len ELSE i

\* The selection of one range from its k-th enumerated index on: an index
\* that resolves outside 0 .. len - 1 gives nothing, any other the field there.
RECURSIVE SelectionFrom(_, _, _)
SelectionFrom(r, fields, k) ==
    IF k > Span(r) THEN <<>>
    ELSE LET at == Resolved(Enumerated(r, k), Len(fields))
         IN  (IF at < 0 \/ at >= Len(fields) THEN <<>> ELSE <<fields[at + 1]>>)
             \o SelectionFrom(r, fields, k + 1)

Selection(r, fields) == SelectionFrom(r, fields, 1)

Swapped(r) == [start |-> r.end, end |-> r.start]

\* C11: the result of extract_columns is the concatenation, in range order,
\* of the selections of the ranges (so fields named twice come twice and
\* indices out of bounds come not at all), and the range (b, a) alone gives
\* the reverse of what the range (a, b) alone gives.
C11_ExtractColumns ==
    (extracted # NoResult) =>
        /\ extracted.kind = "ok"
        /\ extracted.results =
               Concat([m \in 1..Len(column_ranges) |->
                           Selection(column_ranges[m], columns)])
        /\ \A m \in 1..Len(column_ranges) :
               ExtractColumns(<<Swapped(column_ranges[m])>>, columns) =
                   Reverse(ExtractColumns(<<column_ranges[m]>>, columns))

\* The descending range 2 .. -2 and then the range 1 .. 2 over two fields:
\* index 2 is out of bounds, -1 and -2 count from the end, fields repeat.
C11_Witness ==
    /\ column_ranges = <<[start |-> 2, end |-> -2], [start |-> 1, end |-> 2]>>
    /\ columns = FieldsOfLen(2)
    /\ extracted # NoResult
    /\ extracted.results = << <<"field", 1>>, <<"field", 0>>, <<"field", 1>>,
                              <<"field", 0>>, <<"field", 1>> >>

----------------------------------------------------------------------------
(* Properties of realmain *)

\* The tokens give no range: there is none, or the first is not a range.
NoRanges == flags = <<>> \/ ~IsRangeToken(flags[1])

\* The tokens after the leading ranges: the names of the sources.
SourceTokens == SubSeq(flags, LeadingRun(flags) + 1, Len(flags))

\* Every named source can be opened.
AllSourcesOpen ==
    \A k \in 1..Len(SourceTokens) :
        SourceTokens[k] = <<"-">> \/ FileExists(StrOf(SourceTokens[k]))

\* The input: the data of the sources in the order they are named, the
\* standard input alone when none is named; the standard input is one stream,
\* so naming it again adds nothing.
RECURSIVE InputFrom(_, _)
InputFrom(toks, stdinTaken) ==
    IF toks = <<>> THEN <<>>
    ELSE IF Head(toks) = <<"-">>
    THEN (IF stdinTaken THEN <<>> ELSE StdinData) \o InputFrom(Tail(toks), TRUE)
    ELSE FileData(StrOf(Head(toks))) \o InputFrom(Tail(toks), stdinTaken)

InputText == IF SourceTokens = <<>> THEN StdinData
             ELSE InputFrom(SourceTokens, FALSE)

\* Where the lines of the input end: at each "\n", and one past the last
\* byte when the input does not end with "\n".
LineEnds ==
    {k \in 1..Len(InputText) : InputText[k] = NL}
        \cup (IF InputText # <<>> /\ InputText[Len(InputText)] # NL
              THEN {Len(InputText) + 1} ELSE {})

\* The i-th line of the input, without its "\n".
InputLine(i) ==
    LET e == CHOOSE x \in LineEnds : Cardinality({y \in LineEnds : y < x}) = i - 1
        before == {y \in LineEnds : y < e}
        b == IF before = {} THEN 1
             ELSE 1 + (CHOOSE y \in before : \A z \in before : z <= y)
    IN  SubSeq(InputText, b, e - 1)

\* What the output handler is to be given: one string per input line, in the
\* order of the lines.
ExpectedOutputs ==
    [i \in 1..Cardinality(LineEnds) |->
        OutputLine([k \in 1..LeadingRun(flags) |-> RangeOf(flags[k])],
                   InputLine(i))]

\* A read of a source failed.
ReadFailed == outcome.kind = "panic" /\ outcome.at = "read"

\* Without a range: status 1, no output, no reader, nothing opened.
UsageExit ==
    /\ outcome.kind = "exit" /\ outcome.status = 1
    /\ outcome.outputs = <<>>
    /\ ~outcome.constructed
    /\ outcome.opens = <<>> /\ outcome.call_count = 0

\* With a range and sources that open and read: one output per line, in
\* order, and status 0.
OutputPerLine ==
    /\ outcome.kind = "exit" /\ outcome.status = 0
    /\ outcome.outputs = ExpectedOutputs

\* C12: when the argument tokens yield no range (there is no token, or the
\* first is not a range) realmain ends with status 1 without calling the
\* output handler, constructing the reader or opening a source; when there is
\* a range and all sources open and read, the output handler is called once
\* per input line, in input order, and the status is 0.
C12_Realmain ==
    (outcome # NoResult) =>
        /\ NoRanges => UsageExit
        /\ (~NoRanges /\ AllSourcesOpen /\ ~ReadFailed) => OutputPerLine

\* The same for the runs in which no call of parse_column_range panics.
RealmainUnlessParsePanic ==
    (outcome # NoResult
        /\ ~(outcome.kind = "panic" /\ outcome.at = "separate_args")) =>
        /\ NoRanges => UsageExit
        /\ (~NoRanges /\ AllSourcesOpen /\ ~ReadFailed) => OutputPerLine

====
